---- MODULE Spec2Model ----
(***************************************************************************)
(* Model of google/oauth2/gdch_credentials.py: the GDC-H Credentials       *)
(* object, its two-step refresh (k8s token request over mTLS, then the AIS *)
(* token exchange) and the derivations with_audience / with_quota_project. *)
(*                                                                         *)
(* Objects live in a heap (a sequence of attribute records indexed by      *)
(* address); the caller holds references to them in `inst`.  A refresh is  *)
(* executed by a thread in the steps at which it can block or touch shared *)
(* memory: the two network calls, the two collaborator-parsing steps and   *)
(* the two attribute stores of `self.token, self.expiry = ...`.            *)
(***************************************************************************)
EXTENDS Integers, Sequences, FiniteSets, TLC

-----------------------------------------------------------------------------
(* Bounds *)

\* Number of Credentials references the caller may hold (original + derived).
MaxInst == 2
\* Number of caller threads that may run refresh.
NumThreads == 2
\* Number of references in a run of derivations only (original + derived).
MaxChain == 5

-----------------------------------------------------------------------------
(* Values *)

\* Python's None for string-valued attributes.
None == "None"
\* cert=None in a token endpoint request (the cert argument is a pair otherwise).
NoCert == <<>>
\* The empty dict {} passed as request body.
EmptyBody == [k \in {} |-> None]

TOKEN_EXCHANGE_TYPE == "urn:ietf:params:oauth:token-type:token-exchange"
ACCESS_TOKEN_TOKEN_TYPE == "urn:ietf:params:oauth:token-type:access_token"
JWT_TOKEN_TYPE == "urn:ietf:params:oauth:token-type:jwt"
SERVICE_ACCOUNT_TOKEN_TYPE == "urn:k8s:params:oauth:token-type:serviceaccount"
\* http_client.CREATED
CREATED == 201

\* Constructor arguments the caller draws from.
Audiences == {"aud-1", "aud-2"}
QuotaIds == {"qp-1"}

\* Bootstrap tokens as Python strings (sequences of code points):
\* "a", "ab", "abc" (one per base64 padding case) and the non-ASCII "\xe9".
K8sTokens == {<<97>>, <<97, 98>>, <<97, 98, 99>>, <<233>>}

Threads == 1..NumThreads

-----------------------------------------------------------------------------
(* Line 95: base64.b64encode(k8s_token.encode()).decode() *)

\* str.encode() of one code point (UTF-8).
Utf8 == [cp \in 0..2047 |->
           IF cp < 128 THEN <<cp>>
           ELSE <<192 + (cp \div 64), 128 + (cp % 64)>>]

RECURSIVE StrEncode(_)
\* str.encode(): the UTF-8 bytes of a string.
StrEncode(s) == IF s = <<>> THEN <<>> ELSE Utf8[Head(s)] \o StrEncode(Tail(s))

\* The base64 alphabet, as the ASCII code of the character for a 6-bit value.
B64Char(v) == IF v < 26 THEN 65 + v
              ELSE IF v < 52 THEN 97 + (v - 26)
              ELSE IF v < 62 THEN 48 + (v - 52)
              ELSE IF v = 62 THEN 43
              ELSE 47

\* '='
B64Pad == 61

RECURSIVE b64encode(_)
\* base64.b64encode(): 3 bytes to 4 characters, '=' padding on the last group.
b64encode(bs) ==
    IF Len(bs) = 0 THEN <<>>
    ELSE IF Len(bs) = 1 THEN
        <<B64Char(bs[1] \div 4), B64Char((bs[1] % 4) * 16), B64Pad, B64Pad>>
    ELSE IF Len(bs) = 2 THEN
        <<B64Char(bs[1] \div 4),
          B64Char((bs[1] % 4) * 16 + (bs[2] \div 16)),
          B64Char((bs[2] % 16) * 4),
          B64Pad>>
    ELSE
        <<B64Char(bs[1] \div 4),
          B64Char((bs[1] % 4) * 16 + (bs[2] \div 16)),
          B64Char((bs[2] % 16) * 4 + (bs[3] \div 64)),
          B64Char(bs[3] % 64)>>
        \o b64encode(SubSeq(bs, 4, Len(bs)))

RECURSIVE BytesDecode(_)
\* bytes.decode(): UTF-8 bytes back to code points (1- and 2-byte forms).
BytesDecode(bs) ==
    IF bs = <<>> THEN <<>>
    ELSE IF bs[1] < 128 THEN <<bs[1]>> \o BytesDecode(Tail(bs))
    ELSE <<(bs[1] - 192) * 64 + (bs[2] - 128)>> \o BytesDecode(SubSeq(bs, 3, Len(bs)))

\* JSON null as the value of status.token: not a str, so it has no .encode().
JsonNull == <<-1>>

IsStr(v) == v # JsonNull

\* As EncodeSubjectToken, encoding the encoded token a second time.
EncodeSubjectToken_Twice(k8s_token) ==
    BytesDecode(b64encode(b64encode(StrEncode(k8s_token))))

\* k8s_token = base64.b64encode(k8s_token.encode()).decode()
EncodeSubjectToken(k8s_token) == BytesDecode(b64encode(StrEncode(k8s_token)))

-----------------------------------------------------------------------------
(* Exceptions and collaborator outcomes *)

Exc(type, by) == [type |-> type, raised_by |-> by]

NoExc == Exc(None, None)

\* Parsed JSON bodies the k8s token endpoint can answer with (status 201):
\*   status.token          {"status": {"token": <t>}}, <t> a string or null
\*   status_without_token  {"status": {}}
\*   no_status             {}
\*   status_not_object     {"status": "Failure"}
K8sResponses ==
    {[shape |-> "status.token", token |-> t] : t \in K8sTokens \cup {JsonNull}}
    \cup {[shape |-> s, token |-> <<>>] :
            s \in {"status_without_token", "no_status", "status_not_object"}}

NoK8sData == [shape |-> None, token |-> <<>>]

\* Parsed JSON bodies the AIS token endpoint can answer with: two token
\* responses (each with its own access token and expiry) and one without an
\* access_token field.
AisResponses ==
    {[access_token |-> "final-x", refresh_token |-> None, expiry |-> "T1"],
     [access_token |-> "final-y", refresh_token |-> "refresh-y", expiry |-> "T2"],
     [access_token |-> None, refresh_token |-> None, expiry |-> None]}

NoAisData == [access_token |-> None, refresh_token |-> "unset", expiry |-> None]

\* _client._token_endpoint_request sends the request and either returns the
\* parsed JSON body or raises: RefreshError on an unexpected status,
\* TransportError when the transport fails.
TokenEndpointErrors == {"RefreshError", "TransportError"}

\* _client._handle_refresh_grant_response(response_data, None): raises
\* RefreshError without an access token, else returns
\* (access_token, refresh_token, expiry, response_data).
handle_refresh_grant_response(response_data) ==
    IF response_data.access_token = None
    THEN [raises |-> TRUE,
          exc |-> Exc("RefreshError", "_handle_refresh_grant_response"),
          value |-> <<None, None, None, response_data>>]
    ELSE [raises |-> FALSE, exc |-> NoExc,
          value |-> <<response_data.access_token, response_data.refresh_token,
                      response_data.expiry, response_data>>]

-----------------------------------------------------------------------------
(* The Credentials object *)

\* credentials.Credentials.__init__ (super().__init__()): no token yet.
BaseInit == [token |-> None, expiry |-> None]

\* Credentials.__init__
CredentialsInit(k8s_ca_cert_path, k8s_cert_path, k8s_key_path, k8s_token_endpoint, ais_ca_cert_path, ais_token_endpoint, audience, quota_project_id) ==
    [token |-> BaseInit.token,
     expiry |-> BaseInit.expiry,
     k8s_ca_cert_path |-> k8s_ca_cert_path,
     k8s_cert_path |-> k8s_cert_path,
     k8s_key_path |-> k8s_key_path,
     k8s_token_endpoint |-> k8s_token_endpoint,
     ais_ca_cert_path |-> ais_ca_cert_path,
     ais_token_endpoint |-> ais_token_endpoint,
     audience |-> audience,
     quota_project_id |-> quota_project_id]

\* Allocation of a new object: the heap grows and the new address is returned.
New(hp, obj) == [heap |-> Append(hp, obj), ret |-> Len(hp) + 1]

\* As with_audience, carrying the token and expiry over to the copy.
with_audience_CopiesToken(hp, self, audience) ==
    New(hp, [CredentialsInit(hp[self].k8s_ca_cert_path,
                             hp[self].k8s_cert_path,
                             hp[self].k8s_key_path,
                             hp[self].k8s_token_endpoint,
                             hp[self].ais_ca_cert_path,
                             hp[self].ais_token_endpoint,
                             audience,
                             hp[self].quota_project_id)
             EXCEPT !.token = hp[self].token, !.expiry = hp[self].expiry])

\* As with_audience, setting the audience on self and returning self.
with_audience_ReturnsSelf(hp, self, audience) ==
    [heap |-> [hp EXCEPT ![self].audience = audience], ret |-> self]

\* As with_audience, leaving the quota project to the constructor's default.
with_audience_DropsQuotaProject(hp, self, audience) ==
    New(hp, CredentialsInit(hp[self].k8s_ca_cert_path,
                            hp[self].k8s_cert_path,
                            hp[self].k8s_key_path,
                            hp[self].k8s_token_endpoint,
                            hp[self].ais_ca_cert_path,
                            hp[self].ais_token_endpoint,
                            audience,
                            None))

\* Credentials.with_audience: self.__class__(...) with the audience replaced.
with_audience(hp, self, audience) ==
    New(hp, CredentialsInit(hp[self].k8s_ca_cert_path,
                            hp[self].k8s_cert_path,
                            hp[self].k8s_key_path,
                            hp[self].k8s_token_endpoint,
                            hp[self].ais_ca_cert_path,
                            hp[self].ais_token_endpoint,
                            audience,
                            hp[self].quota_project_id))

\* As with_quota_project, passing self._quota_project_id instead of the argument.
with_quota_project_IgnoresArg(hp, self, quota_project_id) ==
    New(hp, CredentialsInit(hp[self].k8s_ca_cert_path,
                            hp[self].k8s_cert_path,
                            hp[self].k8s_key_path,
                            hp[self].k8s_token_endpoint,
                            hp[self].ais_ca_cert_path,
                            hp[self].ais_token_endpoint,
                            hp[self].audience,
                            hp[self].quota_project_id))

\* As with_quota_project, also setting the quota project on self.
with_quota_project_SetsOnSelf(hp, self, quota_project_id) ==
    New([hp EXCEPT ![self].quota_project_id = quota_project_id],
        CredentialsInit(hp[self].k8s_ca_cert_path,
                        hp[self].k8s_cert_path,
                        hp[self].k8s_key_path,
                        hp[self].k8s_token_endpoint,
                        hp[self].ais_ca_cert_path,
                        hp[self].ais_token_endpoint,
                        hp[self].audience,
                        quota_project_id))

\* Credentials.with_quota_project: self.__class__(...) with the quota project replaced.
with_quota_project(hp, self, quota_project_id) ==
    New(hp, CredentialsInit(hp[self].k8s_ca_cert_path,
                            hp[self].k8s_cert_path,
                            hp[self].k8s_key_path,
                            hp[self].k8s_token_endpoint,
                            hp[self].ais_ca_cert_path,
                            hp[self].ais_token_endpoint,
                            hp[self].audience,
                            quota_project_id))

\* The arguments of the _token_endpoint_request call of _make_k8s_token_request.
K8sRequest(obj) ==
    [token_uri |-> obj.k8s_token_endpoint,
     body |-> EmptyBody,
     access_token |-> None,
     use_json |-> TRUE,
     cert |-> <<obj.k8s_cert_path, obj.k8s_key_path>>,
     verify |-> obj.k8s_ca_cert_path,
     expected_status |-> <<CREATED>>]

\* As K8sTokenOf, with a missing key defaulting to the empty string.
K8sTokenOf_Default(k8s_response_data) ==
    IF k8s_response_data.shape = "status.token"
    THEN [raises |-> FALSE, exc |-> NoExc, value |-> k8s_response_data.token]
    ELSE IF k8s_response_data.shape \in {"status_without_token", "no_status"}
    THEN [raises |-> FALSE, exc |-> NoExc, value |-> <<>>]
    ELSE [raises |-> TRUE, exc |-> Exc("TypeError", "_make_k8s_token_request"),
          value |-> <<>>]

\* k8s_response_data["status"]["token"] with the except KeyError clause:
\* a missing key becomes RefreshError, indexing a non-object is a TypeError
\* that the clause does not catch.
K8sTokenOf(k8s_response_data) ==
    IF k8s_response_data.shape = "status.token"
    THEN [raises |-> FALSE, exc |-> NoExc, value |-> k8s_response_data.token]
    ELSE IF k8s_response_data.shape \in {"status_without_token", "no_status"}
    THEN [raises |-> TRUE, exc |-> Exc("RefreshError", "_make_k8s_token_request"),
          value |-> <<>>]
    ELSE [raises |-> TRUE, exc |-> Exc("TypeError", "_make_k8s_token_request"),
          value |-> <<>>]

\* As AisRequestBody, with the JWT token type as subject token type.
AisRequestBody_JwtSubject(obj, subject_token) ==
    [grant_type |-> TOKEN_EXCHANGE_TYPE,
     audience |-> obj.audience,
     requested_token_type |-> ACCESS_TOKEN_TOKEN_TYPE,
     subject_token |-> subject_token,
     subject_token_type |-> JWT_TOKEN_TYPE]

\* ais_request_body
AisRequestBody(obj, subject_token) ==
    [grant_type |-> TOKEN_EXCHANGE_TYPE,
     audience |-> obj.audience,
     requested_token_type |-> ACCESS_TOKEN_TOKEN_TYPE,
     subject_token |-> subject_token,
     subject_token_type |-> SERVICE_ACCOUNT_TOKEN_TYPE]

\* As AisRequest, passing the k8s client certificate pair.
AisRequest_WithClientCert(obj, subject_token) ==
    [token_uri |-> obj.ais_token_endpoint,
     body |-> AisRequestBody(obj, subject_token),
     access_token |-> None,
     use_json |-> TRUE,
     cert |-> <<obj.k8s_cert_path, obj.k8s_key_path>>,
     verify |-> obj.ais_ca_cert_path,
     expected_status |-> <<>>]

\* The arguments of the _token_endpoint_request call of _make_ais_token_request.
AisRequest(obj, subject_token) ==
    [token_uri |-> obj.ais_token_endpoint,
     body |-> AisRequestBody(obj, subject_token),
     access_token |-> None,
     use_json |-> TRUE,
     cert |-> NoCert,
     verify |-> obj.ais_ca_cert_path,
     expected_status |-> <<>>]

\* As AisTokenAndExpiry, unpacking the second element as the expiry.
AisTokenAndExpiry_WrongIndex(value) == [ais_token |-> value[1], ais_expiry |-> value[2]]

\* ais_token, _, ais_expiry, _ = <the 4-tuple>; return ais_token, ais_expiry
AisTokenAndExpiry(value) == [ais_token |-> value[1], ais_expiry |-> value[3]]

-----------------------------------------------------------------------------
(* State *)

\* heap        the Credentials objects, by address
\* inst        the references the caller holds (inst[1] is the constructed
\*             credential, the others were returned by derivations)
\* origin      per reference, how the caller obtained it: the call ("init",
\*             "with_audience" or "with_quota_project"), the reference it was
\*             called on, and the audience and quota project the caller
\*             asked for, directly or through the reference it derived from
\* th          per thread: where its refresh call stands, the locals of the
\*             call, what the call sent and wrote to sys.stdout so far, the
\*             exception a collaborator raised in it, and the token/expiry
\*             of self when the call began
\* last        the call that has just ended, if the last step ended one: a
\*             derivation (with its argument, the object it was called on as
\*             it was before the call, and the address returned) or a
\*             refresh (with its outcome)
\* lastSuccess per address: the token response of the last refresh call on
\*             that object that returned normally
VARIABLES heap, inst, origin, th, last, lastSuccess

vars == <<heap, inst, origin, th, last, lastSuccess>>

IdleThread ==
    [pc |-> "idle", h |-> 0, self |-> 0,
     k8s_response_data |-> NoK8sData, k8s_token |-> <<>>,
     ais_response_data |-> NoAisData, ais_token |-> None, ais_expiry |-> None,
     exc |-> NoExc, collab_exc |-> NoExc,
     sent |-> <<>>, stdout |-> <<>>, pre |-> BaseInit]

NoObj == CredentialsInit(None, None, None, None, None, None, None, None)

NoOp == [op |-> None, self |-> 0, arg |-> None, ret |-> 0, before |-> NoObj]

TokenState(obj) == [token |-> obj.token, expiry |-> obj.expiry]

\* The caller constructs one credential; paths and URLs are opaque strings.
Init ==
    /\ \E audience \in Audiences, quota_project_id \in QuotaIds \cup {None} :
         /\ heap = <<CredentialsInit("k8s-ca.pem", "k8s-cert.pem", "k8s-key.pem",
                                     "https://k8s/token", "ais-ca.pem",
                                     "https://ais/token", audience, quota_project_id)>>
         /\ origin = <<[op |-> "init", parent |-> 0, audience |-> audience,
                        quota_project_id |-> quota_project_id]>>
    /\ inst = <<1>>
    /\ th = [t \in Threads |-> IdleThread]
    /\ last = NoOp
    /\ lastSuccess = <<BaseInit>>

AllIdle == \A t \in Threads : th[t].pc = "idle"

Raise(t, exc) == th' = [th EXCEPT ![t].pc = "raised", ![t].exc = exc]

-----------------------------------------------------------------------------
(* Derivations *)

Derived(op, h, arg, r) ==
    /\ heap' = r.heap
    /\ inst' = Append(inst, r.ret)
    /\ origin' = Append(origin,
                        [op |-> op, parent |-> h,
                         audience |-> IF op = "with_audience"
                                      THEN arg ELSE origin[h].audience,
                         quota_project_id |-> IF op = "with_quota_project"
                                              THEN arg ELSE origin[h].quota_project_id])
    /\ last' = [op |-> op, self |-> inst[h], arg |-> arg, ret |-> r.ret,
                before |-> heap[inst[h]]]
    /\ lastSuccess' = IF Len(r.heap) > Len(heap)
                      THEN Append(lastSuccess, BaseInit) ELSE lastSuccess
    /\ UNCHANGED th

\* The caller calls inst[h].with_audience(audience) and keeps the result.
WithAudience(h, audience) ==
    /\ AllIdle
    /\ Len(inst) < MaxInst
    /\ Derived("with_audience", h, audience, with_audience(heap, inst[h], audience))

\* The caller calls inst[h].with_quota_project(quota_project_id) and keeps the result.
WithQuotaProject(h, quota_project_id) ==
    /\ AllIdle
    /\ Len(inst) < MaxInst
    /\ Derived("with_quota_project", h, quota_project_id,
               with_quota_project(heap, inst[h], quota_project_id))

-----------------------------------------------------------------------------
(* refresh *)

BeginRefresh(t, h) ==
    /\ th[t].pc = "idle"
    /\ th' = [th EXCEPT ![t] = [IdleThread EXCEPT !.pc = "k8s_request",
                                                  !.h = h,
                                                  !.self = inst[h],
                                                  !.pre = TokenState(heap[inst[h]])]]
    /\ last' = NoOp
    /\ UNCHANGED <<heap, inst, origin, lastSuccess>>

\* A thread calls inst[h].refresh(request) while no other call is running.
CallRefresh(t, h) ==
    /\ AllIdle
    /\ BeginRefresh(t, h)

\* As K8sTokenRequest, sending the request a second time when the first
\* attempt raises.
K8sTokenRequest_RetriesOnce(t) ==
    /\ th[t].pc = "k8s_request"
    /\ LET req == K8sRequest(heap[th[t].self])
           sent == Append(th[t].sent, req)
       IN \/ /\ Len(th[t].sent) = 0
             /\ th' = [th EXCEPT ![t].sent = sent]
          \/ \E e \in TokenEndpointErrors :
               th' = [th EXCEPT ![t].pc = "raised",
                                ![t].exc = Exc(e, "_token_endpoint_request"),
                                ![t].collab_exc = Exc(e, "_token_endpoint_request"),
                                ![t].sent = sent]
          \/ \E data \in K8sResponses :
               th' = [th EXCEPT ![t].pc = "k8s_parse",
                                ![t].k8s_response_data = data,
                                ![t].sent = sent]
    /\ last' = NoOp
    /\ UNCHANGED <<heap, inst, origin, lastSuccess>>

\* _make_k8s_token_request, lines 73-82: the mTLS request to the k8s endpoint.
K8sTokenRequest(t) ==
    /\ th[t].pc = "k8s_request"
    /\ LET req == K8sRequest(heap[th[t].self])
           sent == Append(th[t].sent, req)
       IN \/ \E e \in TokenEndpointErrors :
               th' = [th EXCEPT ![t].pc = "raised",
                                ![t].exc = Exc(e, "_token_endpoint_request"),
                                ![t].collab_exc = Exc(e, "_token_endpoint_request"),
                                ![t].sent = sent]
          \/ \E data \in K8sResponses :
               th' = [th EXCEPT ![t].pc = "k8s_parse",
                                ![t].k8s_response_data = data,
                                ![t].sent = sent]
    /\ last' = NoOp
    /\ UNCHANGED <<heap, inst, origin, lastSuccess>>

\* _make_k8s_token_request, lines 84-92: take status.token, write it to
\* sys.stdout and return it, or raise.
K8sTokenParse(t) ==
    /\ th[t].pc = "k8s_parse"
    /\ LET r == K8sTokenOf(th[t].k8s_response_data)
       IN IF r.raises
          THEN Raise(t, r.exc)
          ELSE th' = [th EXCEPT ![t].pc = "ais_request",
                                ![t].k8s_token = r.value,
                                ![t].stdout = Append(@, [text |-> "received k8s token: ",
                                                         arg |-> r.value])]
    /\ last' = NoOp
    /\ UNCHANGED <<heap, inst, origin, lastSuccess>>

\* _make_ais_token_request, lines 95-113: encode the k8s token, build the
\* body and send the token exchange request.
AisTokenRequest(t) ==
    /\ th[t].pc = "ais_request"
    /\ IF ~IsStr(th[t].k8s_token)
       THEN Raise(t, Exc("AttributeError", "_make_ais_token_request"))
       ELSE LET req == AisRequest(heap[th[t].self], EncodeSubjectToken(th[t].k8s_token))
                sent == Append(th[t].sent, req)
            IN \/ \E e \in TokenEndpointErrors :
                    th' = [th EXCEPT ![t].pc = "raised",
                                     ![t].exc = Exc(e, "_token_endpoint_request"),
                                ![t].collab_exc = Exc(e, "_token_endpoint_request"),
                                     ![t].sent = sent]
               \/ \E data \in AisResponses :
                    th' = [th EXCEPT ![t].pc = "ais_handle",
                                     ![t].ais_response_data = data,
                                     ![t].sent = sent]
    /\ last' = NoOp
    /\ UNCHANGED <<heap, inst, origin, lastSuccess>>

\* As AisTokenHandle, dropping the stored token and expiry when the token
\* response cannot be parsed.
AisTokenHandle_Invalidates(t) ==
    /\ th[t].pc = "ais_handle"
    /\ LET r == handle_refresh_grant_response(th[t].ais_response_data)
           v == AisTokenAndExpiry(r.value)
       IN IF r.raises
          THEN /\ th' = [th EXCEPT ![t].pc = "raised",
                                   ![t].exc = r.exc,
                                   ![t].collab_exc = r.exc]
               /\ heap' = [heap EXCEPT ![th[t].self].token = None,
                                       ![th[t].self].expiry = None]
          ELSE /\ th' = [th EXCEPT ![t].pc = "store_token",
                                   ![t].ais_token = v.ais_token,
                                   ![t].ais_expiry = v.ais_expiry,
                                   ![t].stdout = Append(@, [text |-> "received ais token: ",
                                                            arg |-> v.ais_token])]
               /\ UNCHANGED heap
    /\ last' = NoOp
    /\ UNCHANGED <<inst, origin, lastSuccess>>

\* As AisTokenHandle, catching the parser's error and raising a new
\* RefreshError in its place.
AisTokenHandle_Wraps(t) ==
    /\ th[t].pc = "ais_handle"
    /\ LET r == handle_refresh_grant_response(th[t].ais_response_data)
           v == AisTokenAndExpiry(r.value)
       IN IF r.raises
          THEN th' = [th EXCEPT ![t].pc = "raised",
                                ![t].exc = Exc("RefreshError", "_make_ais_token_request"),
                                ![t].collab_exc = r.exc]
          ELSE th' = [th EXCEPT ![t].pc = "store_token",
                                ![t].ais_token = v.ais_token,
                                ![t].ais_expiry = v.ais_expiry,
                                ![t].stdout = Append(@, [text |-> "received ais token: ",
                                                         arg |-> v.ais_token])]
    /\ last' = NoOp
    /\ UNCHANGED <<heap, inst, origin, lastSuccess>>

\* _make_ais_token_request, lines 114-118: parse the token response, write
\* the access token to sys.stdout and return (ais_token, ais_expiry).
AisTokenHandle(t) ==
    /\ th[t].pc = "ais_handle"
    /\ LET r == handle_refresh_grant_response(th[t].ais_response_data)
           v == AisTokenAndExpiry(r.value)
       IN IF r.raises
          THEN th' = [th EXCEPT ![t].pc = "raised",
                                ![t].exc = r.exc,
                                ![t].collab_exc = r.exc]
          ELSE th' = [th EXCEPT ![t].pc = "store_token",
                                ![t].ais_token = v.ais_token,
                                ![t].ais_expiry = v.ais_expiry,
                                ![t].stdout = Append(@, [text |-> "received ais token: ",
                                                         arg |-> v.ais_token])]
    /\ last' = NoOp
    /\ UNCHANGED <<heap, inst, origin, lastSuccess>>

\* As StoreToken, keeping a token that is already set.
StoreToken_OnlyIfUnset(t) ==
    /\ th[t].pc = "store_token"
    /\ heap' = IF heap[th[t].self].token = None
               THEN [heap EXCEPT ![th[t].self].token = th[t].ais_token]
               ELSE heap
    /\ th' = [th EXCEPT ![t].pc = "store_expiry"]
    /\ last' = NoOp
    /\ UNCHANGED <<inst, origin, lastSuccess>>

\* refresh, line 123, first target of the assignment: self.token = ais_token
StoreToken(t) ==
    /\ th[t].pc = "store_token"
    /\ heap' = [heap EXCEPT ![th[t].self].token = th[t].ais_token]
    /\ th' = [th EXCEPT ![t].pc = "store_expiry"]
    /\ last' = NoOp
    /\ UNCHANGED <<inst, origin, lastSuccess>>

\* As StoreExpiry, discarding the expiry.
StoreExpiry_Discards(t) ==
    /\ th[t].pc = "store_expiry"
    /\ th' = [th EXCEPT ![t].pc = "returned"]
    /\ last' = NoOp
    /\ UNCHANGED <<heap, inst, origin, lastSuccess>>

\* As StoreExpiry, also resetting the quota project of self.
StoreExpiry_ClearsQuotaProject(t) ==
    /\ th[t].pc = "store_expiry"
    /\ heap' = [heap EXCEPT ![th[t].self].expiry = th[t].ais_expiry,
                            ![th[t].self].quota_project_id = None]
    /\ th' = [th EXCEPT ![t].pc = "returned"]
    /\ last' = NoOp
    /\ UNCHANGED <<inst, origin, lastSuccess>>

\* refresh, line 123, second target of the assignment: self.expiry = ais_expiry;
\* refresh returns.
StoreExpiry(t) ==
    /\ th[t].pc = "store_expiry"
    /\ heap' = [heap EXCEPT ![th[t].self].expiry = th[t].ais_expiry]
    /\ th' = [th EXCEPT ![t].pc = "returned"]
    /\ last' = NoOp
    /\ UNCHANGED <<inst, origin, lastSuccess>>

\* The caller has the outcome of the call (a return or an exception) and
\* goes on.
Finish(t) ==
    /\ th[t].pc \in {"returned", "raised"}
    /\ lastSuccess' = IF th[t].pc = "returned"
                      THEN [lastSuccess EXCEPT ![th[t].self] =
                              [token |-> th[t].ais_response_data.access_token,
                               expiry |-> th[t].ais_response_data.expiry]]
                      ELSE lastSuccess
    /\ th' = [th EXCEPT ![t] = IdleThread]
    /\ last' = [op |-> "refresh", self |-> th[t].self, arg |-> th[t].pc, ret |-> 0,
                before |-> NoObj]
    /\ UNCHANGED <<heap, inst, origin>>

-----------------------------------------------------------------------------
(* Specifications *)

\* One caller: calls on the credentials follow one another.
Next ==
    \/ \E h \in 1..Len(inst), audience \in Audiences : WithAudience(h, audience)
    \/ \E h \in 1..Len(inst), q \in QuotaIds : WithQuotaProject(h, q)
    \/ \E t \in Threads, h \in 1..Len(inst) : CallRefresh(t, h)
    \/ \E t \in Threads : K8sTokenRequest(t)
    \/ \E t \in Threads : K8sTokenParse(t)
    \/ \E t \in Threads : AisTokenRequest(t)
    \/ \E t \in Threads : AisTokenHandle(t)
    \/ \E t \in Threads : StoreToken(t)
    \/ \E t \in Threads : StoreExpiry(t)
    \/ \E t \in Threads : Finish(t)

Spec == Init /\ [][Next]_vars

\* Several threads call refresh on the constructed credential without
\* waiting for one another.
ConcurrentRefresh(t) == BeginRefresh(t, 1)

NextConc ==
    \/ \E t \in Threads : ConcurrentRefresh(t)
    \/ \E t \in Threads : K8sTokenRequest(t)
    \/ \E t \in Threads : K8sTokenParse(t)
    \/ \E t \in Threads : AisTokenRequest(t)
    \/ \E t \in Threads : AisTokenHandle(t)
    \/ \E t \in Threads : StoreToken(t)
    \/ \E t \in Threads : StoreExpiry(t)
    \/ \E t \in Threads : Finish(t)

SpecConc == Init /\ [][NextConc]_vars

\* Derivations only, to any depth up to MaxChain references, from a
\* credential that has never been refreshed or holds the token and expiry of
\* a token response.
InitDerive ==
    /\ \E audience \in Audiences, quota_project_id \in QuotaIds \cup {None},
          r \in AisResponses :
         /\ heap = <<[CredentialsInit("k8s-ca.pem", "k8s-cert.pem", "k8s-key.pem",
                                      "https://k8s/token", "ais-ca.pem",
                                      "https://ais/token", audience, quota_project_id)
                      EXCEPT !.token = r.access_token, !.expiry = r.expiry]>>
         /\ origin = <<[op |-> "init", parent |-> 0, audience |-> audience,
                        quota_project_id |-> quota_project_id]>>
         /\ lastSuccess = <<[token |-> r.access_token, expiry |-> r.expiry]>>
    /\ inst = <<1>>
    /\ th = [t \in Threads |-> IdleThread]
    /\ last = NoOp

DeriveWithAudience(h, audience) ==
    /\ Len(inst) < MaxChain
    /\ Derived("with_audience", h, audience, with_audience(heap, inst[h], audience))

DeriveWithQuotaProject(h, quota_project_id) ==
    /\ Len(inst) < MaxChain
    /\ Derived("with_quota_project", h, quota_project_id,
               with_quota_project(heap, inst[h], quota_project_id))

NextDerive ==
    \/ \E h \in 1..Len(inst), audience \in Audiences : DeriveWithAudience(h, audience)
    \/ \E h \in 1..Len(inst), q \in QuotaIds : DeriveWithQuotaProject(h, q)

SpecDerive == InitDerive /\ [][NextDerive]_vars

-----------------------------------------------------------------------------
(* Properties *)

Addrs == 1..Len(heap)

\* The configuration attributes of a Credentials object.
Config(obj) ==
    <<obj.k8s_ca_cert_path, obj.k8s_cert_path, obj.k8s_key_path,
      obj.k8s_token_endpoint, obj.ais_ca_cert_path, obj.ais_token_endpoint>>

\* The token and expiry a token response carries.
ResponsePair(data) == [token |-> data.access_token, expiry |-> data.expiry]

\* The bootstrap step of the call of thread t failed: its request raised, or
\* its response gave no token to return.
BootstrapFailed(t) ==
    /\ th[t].pc = "raised"
    /\ \/ th[t].k8s_response_data = NoK8sData
       \/ th[t].k8s_response_data.shape # "status.token"

\* The exchange step of the call of thread t failed: the exchange request was
\* sent and the call raised.
ExchangeFailed(t) ==
    /\ th[t].pc = "raised"
    /\ Len(th[t].sent) = 2

\* C1: when a refresh call has received a bootstrap token and a token
\* response and returns, self.token and self.expiry are the access token and
\* the expiry of that token response.
C1_RefreshSetsTokenAndExpiry ==
    \A t \in Threads :
        th[t].pc = "returned" =>
            /\ th[t].k8s_response_data.shape = "status.token"
            /\ heap[th[t].self].token = th[t].ais_response_data.access_token
            /\ heap[th[t].self].expiry = th[t].ais_response_data.expiry

\* A refresh has returned and replaced an earlier, different token.
C1_Witness ==
    \E t \in Threads :
        /\ th[t].pc = "returned"
        /\ th[t].pre.token # None
        /\ th[t].pre.token # heap[th[t].self].token
        /\ heap[th[t].self].expiry = "T2"

\* C2: when the bootstrap response has no status.token field, refresh raises
\* RefreshError, and token and expiry are what they were before the call.
C2_MissingTokenRaisesRefreshError ==
    \A t \in Threads :
        (/\ th[t].pc = "raised"
         /\ th[t].k8s_response_data.shape \in
                {"status_without_token", "no_status", "status_not_object"})
        => /\ th[t].exc.type = "RefreshError"
           /\ TokenState(heap[th[t].self]) = th[t].pre

\* C3: when the exchange step fails, refresh raises and token and expiry are
\* what they were before the call.
C3_ExchangeFailureKeepsState ==
    \A t \in Threads :
        ExchangeFailed(t) =>
            /\ th[t].exc.type # None
            /\ TokenState(heap[th[t].self]) = th[t].pre

\* The token response could not be parsed, on a credential that had a token.
C3_Witness ==
    \E t \in Threads :
        /\ ExchangeFailed(t)
        /\ th[t].exc.raised_by = "_handle_refresh_grant_response"
        /\ th[t].pre.token # None

\* C4: between calls, the token and expiry of every credential are those of
\* its most recent refresh that returned, and None if none has returned.
C4_LastSuccessfulRefresh ==
    \A a \in Addrs :
        (\A t \in Threads : th[t].self # a) =>
            TokenState(heap[a]) = lastSuccess[a]

\* A refresh has just failed on a credential that an earlier refresh had
\* given a token.
C4_Witness ==
    /\ last.op = "refresh"
    /\ last.arg = "raised"
    /\ lastSuccess[last.self].token # None
    /\ heap[last.self].token = lastSuccess[last.self].token

C6_ConcurrentRefreshNotMixed ==
    (\A t \in Threads : th[t].pc = "returned" /\ th[t].self = 1) =>
        \E t \in Threads : TokenState(heap[1]) = ResponsePair(th[t].ais_response_data)

\* C7: a refresh whose bootstrap step failed has sent nothing but the
\* bootstrap request.
C7_BootstrapFailureSendsNoExchange ==
    \A t \in Threads :
        BootstrapFailed(t) =>
            /\ Len(th[t].sent) = 1
            /\ th[t].sent[1].token_uri = heap[th[t].self].k8s_token_endpoint
            /\ th[t].sent[1].token_uri # heap[th[t].self].ais_token_endpoint

\* The bootstrap response had a status without token.
C7_Witness ==
    \E t \in Threads :
        /\ BootstrapFailed(t)
        /\ th[t].k8s_response_data.shape = "status_without_token"

\* C8: with_audience(a) returns a new object with audience a, the paths, URLs
\* and quota project of the original, and no token and expiry.
C8_WithAudience ==
    last.op = "with_audience" =>
        /\ last.ret # last.self
        /\ heap[last.ret].audience = last.arg
        /\ Config(heap[last.ret]) = Config(last.before)
        /\ heap[last.ret].quota_project_id = last.before.quota_project_id
        /\ heap[last.ret].token = None
        /\ heap[last.ret].expiry = None

\* with_audience has changed the audience of a credential that holds a token.
C8_Witness ==
    /\ last.op = "with_audience"
    /\ last.arg # last.before.audience
    /\ last.before.token # None

\* C9: with_quota_project(id) returns a new object with quota project id, the
\* paths, URLs and audience of the original, and no token and expiry.
C9_WithQuotaProject ==
    last.op = "with_quota_project" =>
        /\ last.ret # last.self
        /\ heap[last.ret].quota_project_id = last.arg
        /\ Config(heap[last.ret]) = Config(last.before)
        /\ heap[last.ret].audience = last.before.audience
        /\ heap[last.ret].token = None
        /\ heap[last.ret].expiry = None

\* with_quota_project has changed the quota project of a credential that
\* holds a token.
C9_Witness ==
    /\ last.op = "with_quota_project"
    /\ last.arg # last.before.quota_project_id
    /\ last.before.token # None

\* C10: no step of a refresh called through one reference changes the token
\* or expiry of the credential behind another reference.
C10_NoSharedState ==
    [][\A t \in Threads, j \in 1..Len(inst) :
         (th[t].pc # "idle" /\ th'[t] # th[t] /\ j # th[t].h) =>
             TokenState(heap'[inst[j]]) = TokenState(heap[inst[j]])]_vars

\* A refresh through the derived reference has returned while the original
\* holds another token.
C10_Witness ==
    /\ Len(inst) = 2
    /\ \E t \in Threads :
         /\ th[t].pc = "returned"
         /\ th[t].h = 2
         /\ heap[inst[1]].token # None
         /\ heap[inst[1]].token # heap[inst[2]].token

\* The 6-bit value of a base64 character.
B64Val(c) == IF c >= 97 THEN c - 71
             ELSE IF c >= 65 THEN c - 65
             ELSE IF c >= 48 THEN c + 4
             ELSE IF c = 43 THEN 62
             ELSE 63

RECURSIVE b64decode(_)
\* Base64 decoding: 4 characters to 3 bytes, fewer where the group is padded.
b64decode(cs) ==
    IF Len(cs) = 0 THEN <<>>
    ELSE LET v1 == B64Val(cs[1])
             v2 == B64Val(cs[2])
             v3 == B64Val(cs[3])
             v4 == B64Val(cs[4])
             rest == b64decode(SubSeq(cs, 5, Len(cs)))
         IN IF cs[3] = B64Pad
            THEN <<v1 * 4 + (v2 \div 16)>> \o rest
            ELSE IF cs[4] = B64Pad
            THEN <<v1 * 4 + (v2 \div 16), (v2 % 16) * 16 + (v3 \div 4)>> \o rest
            ELSE <<v1 * 4 + (v2 \div 16), (v2 % 16) * 16 + (v3 \div 4),
                   (v3 % 4) * 64 + v4>> \o rest

\* C11: the subject_token of the exchange request of a refresh, base64-decoded
\* once, is the token of the bootstrap response of that refresh.
C11_SubjectTokenRoundTrip ==
    \A t \in Threads :
        Len(th[t].sent) = 2 =>
            BytesDecode(b64decode(StrEncode(th[t].sent[2].body.subject_token)))
                = th[t].k8s_response_data.token

\* The exchange request carries the encoding of the non-ASCII token: two
\* bytes, one padding character.
C11_Witness ==
    \E t \in Threads :
        /\ Len(th[t].sent) = 2
        /\ th[t].k8s_response_data.token = <<233>>
        /\ th[t].sent[2].body.subject_token = <<119, 54, 107, 61>>

\* C12: the body of every exchange request has exactly the five fields; the
\* three type fields are the token-exchange, access-token and
\* service-account identifiers; the audience is the one the caller gave the
\* credential on which refresh was called.
C12_ExchangeRequestBody ==
    \A t \in Threads :
        Len(th[t].sent) = 2 =>
            LET body == th[t].sent[2].body
            IN /\ DOMAIN body = {"grant_type", "audience", "requested_token_type",
                                 "subject_token", "subject_token_type"}
               /\ body.grant_type = "urn:ietf:params:oauth:token-type:token-exchange"
               /\ body.requested_token_type = "urn:ietf:params:oauth:token-type:access_token"
               /\ body.subject_token_type = "urn:k8s:params:oauth:token-type:serviceaccount"
               /\ body.audience = origin[th[t].h].audience

\* A refresh on a credential derived with with_audience sends the new
\* audience, which is not the audience of the original.
C12_Witness ==
    \E t \in Threads :
        /\ Len(th[t].sent) = 2
        /\ origin[th[t].h].op = "with_audience"
        /\ th[t].sent[2].body.audience # origin[origin[th[t].h].parent].audience

\* C13: when the exchange step fails, the exception that leaves refresh is
\* the one the collaborator raised.
C13_ExchangeErrorUnchanged ==
    \A t \in Threads :
        ExchangeFailed(t) =>
            /\ th[t].collab_exc # NoExc
            /\ th[t].exc = th[t].collab_exc

\* The exchange request failed with a transport error.
C13_Witness ==
    \E t \in Threads :
        /\ ExchangeFailed(t)
        /\ th[t].exc = Exc("TransportError", "_token_endpoint_request")

\* C14: a refresh writes neither the bootstrap token nor the access token,
\* nor anything else, to sys.stdout.
C14_NothingWrittenToStdout ==
    \A t \in Threads : th[t].stdout = <<>>

\* C15: a derivation sends no request and leaves every existing object,
\* the original with all its attributes included, as it was.
C15_DerivationsPure ==
    [][Len(inst') > Len(inst) =>
         /\ th' = th
         /\ \A a \in 1..Len(heap) : heap'[a] = heap[a]]_vars

\* A derivation has returned and its original still has the quota project,
\* token and expiry it had.
C15_Witness ==
    /\ last.op \in {"with_audience", "with_quota_project"}
    /\ last.before.quota_project_id # None
    /\ last.before.expiry # None
    /\ heap[last.self] = last.before
    /\ \A t \in Threads : th[t].sent = <<>>

\* C16: a refresh call sends at most two requests, the first to the k8s
\* endpoint and the second to the AIS endpoint, and the second only with the
\* token that the response to the first one gave.
C16_OneRequestPerEndpoint ==
    \A t \in Threads :
        /\ Len(th[t].sent) <= 2
        /\ Len(th[t].sent) >= 1 =>
               th[t].sent[1].token_uri = heap[th[t].self].k8s_token_endpoint
        /\ Len(th[t].sent) = 2 =>
               /\ th[t].sent[2].token_uri = heap[th[t].self].ais_token_endpoint
               /\ th[t].sent[2].token_uri # th[t].sent[1].token_uri
               /\ th[t].k8s_response_data.shape = "status.token"
               /\ th[t].k8s_token = th[t].k8s_response_data.token

\* The bootstrap request failed in the transport and the call ended with
\* that one request.
C16_Witness ==
    \E t \in Threads :
        /\ th[t].pc = "raised"
        /\ th[t].collab_exc.type = "TransportError"
        /\ Len(th[t].sent) = 1

\* C17: the first request of a call is the bootstrap request (k8s URL, k8s
\* client certificate and key, k8s CA, empty body, expected status 201), the
\* second is the exchange request (AIS URL, AIS CA, no client certificate).
C17_TrustMaterial ==
    \A t \in Threads :
        \A i \in 1..Len(th[t].sent) :
            LET req == th[t].sent[i]
            IN \/ /\ i = 1
                  /\ req.token_uri = "https://k8s/token"
                  /\ req.cert = <<"k8s-cert.pem", "k8s-key.pem">>
                  /\ req.verify = "k8s-ca.pem"
                  /\ DOMAIN req.body = {}
                  /\ req.expected_status = <<201>>
               \/ /\ i = 2
                  /\ req.token_uri = "https://ais/token"
                  /\ req.cert = <<>>
                  /\ req.verify = "ais-ca.pem"

\* Both requests were sent by a refresh on a credential derived with
\* with_quota_project.
C17_Witness ==
    \E t \in Threads :
        /\ Len(th[t].sent) = 2
        /\ origin[th[t].h].op = "with_quota_project"

\* C18: no step of a refresh changes the paths, URLs, audience or quota
\* project of any credential.
C18_ConfigImmutable ==
    [][Len(inst') = Len(inst) =>
         \A a \in 1..Len(heap) :
             /\ Config(heap'[a]) = Config(heap[a])
             /\ heap'[a].audience = heap[a].audience
             /\ heap'[a].quota_project_id = heap[a].quota_project_id]_vars

\* A first refresh has returned on a credential with a quota project.
C18_Witness ==
    \E t \in Threads :
        /\ th[t].pc = "returned"
        /\ th[t].pre.token = None
        /\ heap[th[t].self].quota_project_id = "qp-1"
        /\ heap[th[t].self].k8s_key_path = "k8s-key.pem"

\* Reference i is c.with_audience(a).with_quota_project(q) and reference j is
\* c.with_quota_project(q).with_audience(a), for the same c, a and q.
BothOrders(c, i, j) ==
    /\ origin[i].op = "with_quota_project"
    /\ origin[origin[i].parent].op = "with_audience"
    /\ origin[origin[i].parent].parent = c
    /\ origin[j].op = "with_audience"
    /\ origin[origin[j].parent].op = "with_quota_project"
    /\ origin[origin[j].parent].parent = c
    /\ origin[i].audience = origin[j].audience
    /\ origin[i].quota_project_id = origin[j].quota_project_id

\* C19: c.with_audience(a).with_quota_project(q) and
\* c.with_quota_project(q).with_audience(a) both have audience a, quota
\* project q, the paths and URLs of c, and no token and expiry.
C19_DerivationsCommute ==
    \A c \in 1..Len(inst), i \in 1..Len(inst), j \in 1..Len(inst) :
        BothOrders(c, i, j) =>
            \A k \in {i, j} :
                /\ heap[inst[k]].audience = origin[origin[i].parent].audience
                /\ heap[inst[k]].quota_project_id = origin[origin[j].parent].quota_project_id
                /\ Config(heap[inst[k]]) = Config(heap[inst[c]])
                /\ heap[inst[k]].token = None
                /\ heap[inst[k]].expiry = None

\* Both orders were applied to a credential that holds a token, with an
\* audience and a quota project that are not its own.
C19_Witness ==
    \E c \in 1..Len(inst), i \in 1..Len(inst), j \in 1..Len(inst) :
        /\ BothOrders(c, i, j)
        /\ heap[inst[c]].token # None
        /\ heap[inst[c]].audience # origin[i].audience
        /\ heap[inst[c]].quota_project_id # origin[i].quota_project_id

====
